---- MODULE Spec2Model ----
(***************************************************************************)
(* Model of ipv4-classify (src/src/lib.rs): the Subnet value type          *)
(* (contains, common_of, Display) and the AddressTree (push, stepdown,     *)
(* get_subnets, get_leafs, get_subnets_map), driven the way find_subnets   *)
(* drives them: a run of pushes into AddressTree::new(), then one          *)
(* get_subnets_map.                                                        *)
(*                                                                         *)
(* A u32 is a function 1..32 -> {0,1}, index 1 the most significant bit,   *)
(* so that the full width is kept (TLC's integers are 32-bit signed).      *)
(* Arithmetic that overflows (u32 << 32, u8 0 - 1, u8 255 + 1) panics in a *)
(* build with overflow checks and wraps in a build without: the variable   *)
(* overflow_checks is the build profile, chosen in Init.                   *)
(***************************************************************************)
EXTENDS Integers, Sequences, FiniteSets, TLC

VARIABLES
    overflow_checks, \* build profile: TRUE = debug (overflow panics), FALSE = release (wraps)
    tree,            \* the AddressTree owned by find_subnets
    pushed,          \* the subnets handed to push so far, in order
    pc,              \* "pushing" | "done" | "failed" | "panicked"
    subnets_map,     \* Option<HashMap<String, Vec<String>>>: the value get_subnets_map returned
    last_sd,         \* history: where the last push called stepdown, None if it did not
    co_s1, co_s2,    \* arguments of a direct Subnet::common_of call
    co_min,          \* its min_mask: Option<u8>
    co_out,          \* its outcome, [kind |-> "NotCalled"] before the call
    sn_o, sn_len,    \* arguments of a direct Subnet::new call: the four octets, mask_len
    sn_out,          \* its outcome, [kind |-> "NotCalled"] before the call
    files,           \* find_subnets(file_names): the files named, as their content
    file_no,         \* how many of them the `for file_name in file_names` loop has taken
    addrs,           \* the Vec<Subnet> parsed from the current file, not yet popped
    error,           \* the Err find_subnets returned, None if none
    pushed_from      \* history: for each entry of pushed, the number of the file it came from

treeVars == <<tree, pushed, pc, subnets_map, last_sd>>
coVars == <<co_s1, co_s2, co_min, co_out>>
snVars == <<sn_o, sn_len, sn_out>>
fileVars == <<files, file_no, addrs, error, pushed_from>>

vars == <<overflow_checks, treeVars, coVars, snVars, fileVars>>

-----------------------------------------------------------------------------
(* Bounds of the model *)

MaxPushes == 4

-----------------------------------------------------------------------------
(* Option<T> *)

Some(x) == [some |-> TRUE, v |-> x]
None == [some |-> FALSE, v |-> 0]

-----------------------------------------------------------------------------
(* u32 and u8 arithmetic *)

U32_BITS == 32
U8_MODULUS == 256

BitIdx == 1..U32_BITS

RECURSIVE Pow2(_)
Pow2(n) == IF n = 0 THEN 1 ELSE 2 * Pow2(n - 1)

U32_MAX == [i \in BitIdx |-> 1]

BitAnd(x, y) == [i \in BitIdx |-> x[i] * y[i]]

\* x << n for 0 <= n < 32
ShlBits(x, n) == SubSeq(x, n + 1, U32_BITS) \o [i \in 1..n |-> 0]

\* x >> n for 0 <= n < 32
ShrBits(x, n) == [i \in 1..n |-> 0] \o SubSeq(x, 1, U32_BITS - n)

\* x << n as rustc compiles it: n >= 32 panics with overflow checks, else n is masked to 5 bits
Shl(x, n, checks) ==
    IF n >= U32_BITS
    THEN IF checks THEN [panic |-> TRUE, v |-> x]
                   ELSE [panic |-> FALSE, v |-> ShlBits(x, n % U32_BITS)]
    ELSE [panic |-> FALSE, v |-> ShlBits(x, n)]

\* u8 a - b and a + b: out of range panics with overflow checks, else wraps
SubU8(a, b, checks) ==
    IF a - b < 0
    THEN IF checks THEN [panic |-> TRUE, v |-> 0]
                   ELSE [panic |-> FALSE, v |-> (a - b) % U8_MODULUS]
    ELSE [panic |-> FALSE, v |-> a - b]

AddU8(a, b, checks) ==
    IF a + b >= U8_MODULUS
    THEN IF checks THEN [panic |-> TRUE, v |-> 0]
                   ELSE [panic |-> FALSE, v |-> (a + b) % U8_MODULUS]
    ELSE [panic |-> FALSE, v |-> a + b]

\* u32::from_be_bytes([o1, o2, o3, o4])
from_be_bytes(o) ==
    [i \in BitIdx |-> (o[((i - 1) \div 8) + 1] \div Pow2(7 - ((i - 1) % 8))) % 2]

\* the numeric value of a u32 known to be below 256
LowByte(x) ==
    x[25] * 128 + x[26] * 64 + x[27] * 32 + x[28] * 16 + x[29] * 8 + x[30] * 4 + x[31] * 2 + x[32]

-----------------------------------------------------------------------------
(* Subnet *)

\* Subnet::root()
root == [bits |-> [i \in BitIdx |-> 0], mask_len |-> 0, mask |-> [i \in BitIdx |-> 0]]

\* Subnet::new(o1, o2, o3, o4, mask_len) -> Result<Subnet, _>
new(o, mask_len, checks) ==
    IF mask_len > 32
    THEN [kind |-> "Err", v |-> root]
    ELSE LET sh == Shl(U32_MAX, 32 - mask_len, checks) IN
         IF sh.panic
         THEN [kind |-> "Panic", v |-> root]
         ELSE [kind |-> "Ok",
               v |-> [bits |-> BitAnd(from_be_bytes(o), sh.v),
                      mask_len |-> mask_len,
                      mask |-> sh.v]]

\* contains with the mask forgotten: the subnets compared as whole words
contains_unmasked(self, other) ==
    IF self.mask_len > other.mask_len
    THEN FALSE
    ELSE other.bits = self.bits

\* Subnet::contains
contains(self, other) ==
    IF self.mask_len > other.mask_len
    THEN FALSE
    ELSE BitAnd(other.bits, self.mask) = self.bits

RECURSIVE common_of_loop(_, _, _, _, _, _)

\* the loop returning s1.bits as they are, the bits below the found mask not cleared
common_of_loop_unmasked(s1, s2, min_mask, curr_mask_len, curr_mask, checks) ==
    IF curr_mask_len >= min_mask
    THEN IF BitAnd(s1.bits, curr_mask) = BitAnd(s2.bits, curr_mask)
         THEN [kind |-> "Some",
               v |-> [bits |-> s1.bits, mask_len |-> curr_mask_len, mask |-> curr_mask]]
         ELSE LET dec == SubU8(curr_mask_len, 1, checks) IN
              IF dec.panic
              THEN [kind |-> "Panic", v |-> root]
              ELSE common_of_loop(s1, s2, min_mask, dec.v, ShlBits(curr_mask, 1), checks)
    ELSE [kind |-> "None", v |-> root]

\* the while loop of Subnet::common_of
common_of_loop(s1, s2, min_mask, curr_mask_len, curr_mask, checks) ==
    IF curr_mask_len >= min_mask
    THEN IF BitAnd(s1.bits, curr_mask) = BitAnd(s2.bits, curr_mask)
         THEN [kind |-> "Some",
               v |-> [bits |-> BitAnd(s1.bits, curr_mask),
                      mask_len |-> curr_mask_len,
                      mask |-> curr_mask]]
         ELSE LET dec == SubU8(curr_mask_len, 1, checks) IN
              IF dec.panic
              THEN [kind |-> "Panic", v |-> root]
              ELSE common_of_loop(s1, s2, min_mask, dec.v, ShlBits(curr_mask, 1), checks)
    ELSE [kind |-> "None", v |-> root]

Min(a, b) == IF a <= b THEN a ELSE b

\* common_of refusing a min_mask equal to the shorter mask as well
common_of_strict_guard(s1, s2, min_mask_opt, checks) ==
    LET min_mask == IF min_mask_opt.some THEN min_mask_opt.v ELSE 0
        curr_mask_len == Min(s1.mask_len, s2.mask_len)
    IN  IF min_mask >= curr_mask_len
        THEN [kind |-> "Panic", v |-> root]
        ELSE LET amount == SubU8(32, curr_mask_len, checks) IN
             IF amount.panic
             THEN [kind |-> "Panic", v |-> root]
             ELSE LET sh == Shl(U32_MAX, amount.v, checks) IN
                  IF sh.panic
                  THEN [kind |-> "Panic", v |-> root]
                  ELSE common_of_loop(s1, s2, min_mask, curr_mask_len, sh.v, checks)

\* Subnet::common_of(s1, s2, min_mask: Option<u8>) -> Option<Subnet>, or a panic
common_of(s1, s2, min_mask_opt, checks) ==
    LET min_mask == IF min_mask_opt.some THEN min_mask_opt.v ELSE 0
        curr_mask_len == Min(s1.mask_len, s2.mask_len)
    IN  IF min_mask > curr_mask_len
        THEN [kind |-> "Panic", v |-> root]
        ELSE LET amount == SubU8(32, curr_mask_len, checks) IN
             IF amount.panic
             THEN [kind |-> "Panic", v |-> root]
             ELSE LET sh == Shl(U32_MAX, amount.v, checks) IN
                  IF sh.panic
                  THEN [kind |-> "Panic", v |-> root]
                  ELSE common_of_loop(s1, s2, min_mask, curr_mask_len, sh.v, checks)

\* <Subnet as Display>::fmt: the text "o1.o2.o3.o4/mask_len", as its five numbers
to_string(s) ==
    << LowByte(ShrBits(BitAnd(s.bits, ShlBits(from_be_bytes(<<0, 0, 0, 255>>), 24)), 24)),
       LowByte(ShrBits(BitAnd(s.bits, ShlBits(from_be_bytes(<<0, 0, 0, 255>>), 16)), 16)),
       LowByte(ShrBits(BitAnd(s.bits, ShlBits(from_be_bytes(<<0, 0, 0, 255>>), 8)), 8)),
       LowByte(BitAnd(s.bits, from_be_bytes(<<0, 0, 0, 255>>))),
       s.mask_len >>

-----------------------------------------------------------------------------
(* AddressTree *)

\* AddressTree::new()
AddressTree_new == [subnet |-> root, children |-> None]

\* AddressTree::of(subnet)
of(subnet) == [subnet |-> subnet, children |-> None]

\* stepdown that forgets the neighbour
stepdown_drops_neighbour(self, new_subnet, neighbour) ==
    [subnet |-> new_subnet, children |-> Some(<<[subnet |-> self.subnet, children |-> self.children]>>)]

\* stepdown that leaves self.subnet in place and hands new_subnet to the demoted node
stepdown_keeps_subnet(self, new_subnet, neighbour) ==
    [subnet |-> self.subnet,
     children |-> Some(<<[subnet |-> new_subnet, children |-> self.children], neighbour>>)]

\* stepdown that puts the new arrival before the previous occupant
stepdown_neighbour_first(self, new_subnet, neighbour) ==
    [subnet |-> new_subnet,
     children |-> Some(<<neighbour, [subnet |-> self.subnet, children |-> self.children]>>)]

\* stepdown that demotes the node without its children
stepdown_forgets_children(self, new_subnet, neighbour) ==
    [subnet |-> new_subnet,
     children |-> Some(<<[subnet |-> self.subnet, children |-> None], neighbour>>)]

\* AddressTree::stepdown(&mut self, new_subnet, neighbour): self afterwards
stepdown(self, new_subnet, neighbour) ==
    LET my_subnet == self.subnet
        new_me == IF self.children.some
                  THEN [subnet |-> my_subnet, children |-> Some(self.children.v)]
                  ELSE [subnet |-> my_subnet, children |-> None]
    IN  [subnet |-> new_subnet, children |-> Some(<<new_me, neighbour>>)]

RECURSIVE push(_, _, _)
RECURSIVE push_children(_, _, _, _, _)

\* the loop without the delegation to ch.push: every child is only tried for a merge
push_children_no_delegate(self_subnet, children, i, new_subnet, checks) ==
    IF i > Len(children)
    THEN [children |-> Append(children, of(new_subnet)), res |-> "Ok", sd |-> None]
    ELSE LET min_mask == AddU8(self_subnet.mask_len, 1, checks) IN
         IF min_mask.panic
         THEN [children |-> children, res |-> "Panic", sd |-> None]
         ELSE LET c == common_of(children[i].subnet, new_subnet, Some(min_mask.v), checks) IN
              CASE c.kind = "Panic" -> [children |-> children, res |-> "Panic", sd |-> None]
                [] c.kind = "Some" ->
                     [children |-> [children EXCEPT ![i] = stepdown(children[i], c.v, of(new_subnet))],
                      res |-> "Ok",
                      sd |-> Some([path |-> <<>>, slot |-> i, supernet |-> c.v, leaf |-> new_subnet])]
                [] OTHER ->
                     push_children(self_subnet, children, i + 1, new_subnet, checks)

\* the `for ch in children.iter_mut()` loop of push and the append after it, from the
\* i-th child on, with to_consume still holding new_subnet; yields the children afterwards.
\* sd is history, not program state: the place of the stepdown call, if one was made, as
\* the child indices leading from self to the node whose child `slot` was stepped down
push_children(self_subnet, children, i, new_subnet, checks) ==
    IF i > Len(children)
    THEN [children |-> Append(children, of(new_subnet)), res |-> "Ok", sd |-> None]
    ELSE LET r == push(children[i], new_subnet, checks)
             after == [children EXCEPT ![i] = r.tree]
         IN  CASE r.res = "Panic" -> [children |-> after, res |-> "Panic", sd |-> None]
               [] r.res = "Ok" ->
                    [children |-> after, res |-> "Ok",
                     sd |-> IF r.sd.some
                            THEN Some([r.sd.v EXCEPT !.path = <<i>> \o r.sd.v.path])
                            ELSE None]
               [] OTHER ->
                    LET min_mask == AddU8(self_subnet.mask_len, 1, checks) IN
                    IF min_mask.panic
                    THEN [children |-> after, res |-> "Panic", sd |-> None]
                    ELSE LET c == common_of(after[i].subnet, r.v, Some(min_mask.v), checks) IN
                         CASE c.kind = "Panic" -> [children |-> after, res |-> "Panic", sd |-> None]
                           [] c.kind = "Some" ->
                                [children |-> [after EXCEPT ![i] = stepdown(after[i], c.v, of(r.v))],
                                 res |-> "Ok",
                                 sd |-> Some([path |-> <<>>, slot |-> i, supernet |-> c.v, leaf |-> r.v])]
                           [] OTHER ->
                                push_children(self_subnet, after, i + 1, r.v, checks)

\* push in which a childless mask-32 node does not adopt: it hands the subnet back
push_leaf_rejects(self, new_subnet, checks) ==
    IF contains(self.subnet, new_subnet)
    THEN IF self.children.some
         THEN LET r == push_children(self.subnet, self.children.v, 1, new_subnet, checks) IN
              [tree |-> [self EXCEPT !.children = Some(r.children)], res |-> r.res, v |-> new_subnet,
               sd |-> r.sd]
         ELSE IF self.subnet.mask_len = 32
              THEN [tree |-> self, res |-> "Err", v |-> new_subnet, sd |-> None]
              ELSE [tree |-> [self EXCEPT !.children = Some(<<of(new_subnet)>>)],
                    res |-> "Ok", v |-> new_subnet, sd |-> None]
    ELSE [tree |-> self, res |-> "Err", v |-> new_subnet, sd |-> None]

\* push in which a childless node adopts whatever it is handed, contained or not
push_adopts_unchecked(self, new_subnet, checks) ==
    IF ~self.children.some
    THEN [tree |-> [self EXCEPT !.children = Some(<<of(new_subnet)>>)],
          res |-> "Ok", v |-> new_subnet, sd |-> None]
    ELSE IF contains(self.subnet, new_subnet)
    THEN LET r == push_children(self.subnet, self.children.v, 1, new_subnet, checks) IN
         [tree |-> [self EXCEPT !.children = Some(r.children)], res |-> r.res, v |-> new_subnet,
          sd |-> r.sd]
    ELSE [tree |-> self, res |-> "Err", v |-> new_subnet, sd |-> None]

\* AddressTree::push(&mut self, new_subnet) -> Result<(), Subnet>:
\* tree = self afterwards, res = Ok | Err | Panic, v = the subnet an Err carries
push(self, new_subnet, checks) ==
    IF contains(self.subnet, new_subnet)
    THEN IF self.children.some
         THEN LET r == push_children(self.subnet, self.children.v, 1, new_subnet, checks) IN
              [tree |-> [self EXCEPT !.children = Some(r.children)], res |-> r.res, v |-> new_subnet,
               sd |-> r.sd]
         ELSE [tree |-> [self EXCEPT !.children = Some(<<of(new_subnet)>>)],
               res |-> "Ok", v |-> new_subnet, sd |-> None]
    ELSE [tree |-> self, res |-> "Err", v |-> new_subnet, sd |-> None]

RECURSIVE ConcatAll(_)
ConcatAll(seqs) == IF seqs = <<>> THEN <<>> ELSE Head(seqs) \o ConcatAll(Tail(seqs))

RECURSIVE get_subnets(_)

\* get_subnets reporting the mask-32 children themselves instead of their parent
get_subnets_reports_leaf(self) ==
    IF self.children.some
    THEN ConcatAll([i \in 1..Len(self.children.v) |->
                      IF self.children.v[i].subnet.mask_len = 32
                      THEN <<self.children.v[i]>>
                      ELSE get_subnets(self.children.v[i])])
    ELSE <<>>

\* get_subnets that reports a node with a mask-32 child and goes on into its children
get_subnets_no_chop(self) ==
    IF self.children.some
    THEN (IF \E i \in 1..Len(self.children.v) : self.children.v[i].subnet.mask_len = 32
          THEN <<self>>
          ELSE <<>>)
         \o ConcatAll([i \in 1..Len(self.children.v) |-> get_subnets(self.children.v[i])])
    ELSE <<>>

\* AddressTree::get_subnets(&self) -> Vec<&AddressTree>
get_subnets(self) ==
    IF self.children.some
    THEN IF \E i \in 1..Len(self.children.v) : self.children.v[i].subnet.mask_len = 32
         THEN <<self>>
         ELSE ConcatAll([i \in 1..Len(self.children.v) |-> get_subnets(self.children.v[i])])
    ELSE <<>>

\* get_leafs that looks at the immediate children only
get_leafs_shallow(self) ==
    IF self.children.some
    THEN ConcatAll([i \in 1..Len(self.children.v) |->
                      IF ~self.children.v[i].children.some
                      THEN <<self.children.v[i]>>
                      ELSE <<>>])
    ELSE <<>>

\* AddressTree::get_leafs(&self) -> Vec<&AddressTree>
RECURSIVE get_leafs(_)
get_leafs(self) ==
    IF self.children.some
    THEN ConcatAll([i \in 1..Len(self.children.v) |->
                      IF ~self.children.v[i].children.some
                      THEN <<self.children.v[i]>>
                      ELSE get_leafs(self.children.v[i])])
    ELSE <<>>

\* HashMap::insert: a later insert under an equal key replaces the earlier value
insert(m, k, val) == [x \in DOMAIN m \cup {k} |-> IF x = k THEN val ELSE m[x]]

\* the `for s in subnets` loop of get_subnets_map, from the i-th subnet on
RECURSIVE get_subnets_map_loop(_, _, _)
get_subnets_map_loop(subnets, i, res) ==
    IF i > Len(subnets)
    THEN res
    ELSE LET leafs == get_leafs(subnets[i]) IN
         get_subnets_map_loop(subnets, i + 1,
             insert(res, to_string(subnets[i].subnet),
                    [j \in 1..Len(leafs) |-> to_string(leafs[j].subnet)]))

\* AddressTree::get_subnets_map(&self) -> HashMap<String, Vec<String>>
get_subnets_map(self) == get_subnets_map_loop(get_subnets(self), 1, <<>>)

-----------------------------------------------------------------------------
(* The program: find_subnets pushes every parsed address, then asks for the map *)

\* the dotted quads the input files hold
AddrPool ==
    { <<10, 1, 2, 3>>, <<10, 1, 2, 4>>, <<10, 128, 0, 5>>, <<10, 0, 2, 9>>,
      <<192, 168, 0, 1>>, <<128, 0, 0, 1>> }

\* Subnet::from_str of a line without '/': Subnet::new(o1, o2, o3, o4, 32)
from_str_addr(o, checks) == new(o, 32, checks)

NotCalled == [kind |-> "NotCalled", v |-> root]

\* no direct common_of call, no direct Subnet::new call, no files: the parts of the
\* state a specification does not use
IdleCommonOf == co_s1 = root /\ co_s2 = root /\ co_min = None /\ co_out = NotCalled
IdleNew == sn_o = <<0, 0, 0, 0>> /\ sn_len = 0 /\ sn_out = NotCalled
IdleFiles == files = <<>> /\ file_no = 0 /\ addrs = <<>> /\ error = None /\ pushed_from = <<>>
EmptyTree == tree = AddressTree_new /\ pushed = <<>> /\ subnets_map = None /\ last_sd = None

Init ==
    /\ overflow_checks \in BOOLEAN
    /\ EmptyTree
    /\ pc = "pushing"
    /\ IdleCommonOf
    /\ IdleNew
    /\ IdleFiles

\* one iteration of `while let Some(addr) = addrs.pop()` in find_subnets
Push(o) ==
    /\ pc = "pushing"
    /\ Len(pushed) < MaxPushes
    /\ LET parsed == from_str_addr(o, overflow_checks) IN
       /\ parsed.kind = "Ok"
       /\ LET r == push(tree, parsed.v, overflow_checks) IN
          /\ tree' = r.tree
          /\ pushed' = Append(pushed, parsed.v)
          /\ last_sd' = r.sd
          /\ pc' = CASE r.res = "Ok" -> "pushing"
                     [] r.res = "Err" -> "failed"
                     [] OTHER -> "panicked"
    /\ UNCHANGED <<overflow_checks, subnets_map, coVars, snVars, fileVars>>

\* `let subnets = address_tree.get_subnets_map()` once every address is pushed
GetSubnetsMap ==
    /\ pc = "pushing"
    /\ subnets_map' = Some(get_subnets_map(tree))
    /\ pc' = "done"
    /\ UNCHANGED <<overflow_checks, tree, pushed, last_sd, coVars, snVars, fileVars>>

Next ==
    \/ \E o \in AddrPool : Push(o)
    \/ GetSubnetsMap

Spec == Init /\ [][Next]_vars

-----------------------------------------------------------------------------
(* Subnet::common_of called on its own, on canonical subnets *)

\* the canonical Subnet of the dotted quad o and mask length n (0 <= n <= 32):
\* mask has the top n bits set, bits has nothing set below the mask
Canon(o, n) ==
    LET m == [i \in BitIdx |-> IF i <= n THEN 1 ELSE 0]
    IN  [bits |-> BitAnd(from_be_bytes(o), m), mask_len |-> n, mask |-> m]

SubnetPool ==
    { root,
      Canon(<<10, 1, 2, 0>>, 24), Canon(<<10, 1, 2, 192>>, 26),
      Canon(<<10, 128, 0, 0>>, 24), Canon(<<10, 0, 2, 0>>, 24),
      Canon(<<10, 1, 2, 3>>, 32), Canon(<<10, 1, 2, 4>>, 32),
      Canon(<<128, 0, 0, 0>>, 1), Canon(<<10, 0, 0, 0>>, 8),
      Canon(<<255, 255, 255, 255>>, 32) }

MinMaskPool == {None} \cup {Some(k) : k \in {0, 1, 8, 16, 24, 25, 29, 32, 33}}

InitCommonOf ==
    /\ overflow_checks \in BOOLEAN
    /\ EmptyTree
    /\ pc = "common_of"
    /\ IdleNew
    /\ IdleFiles
    /\ co_s1 \in SubnetPool
    /\ co_s2 \in SubnetPool
    /\ co_min \in MinMaskPool
    /\ co_out = NotCalled

\* Subnet::common_of(&co_s1, &co_s2, co_min)
CallCommonOf ==
    /\ pc = "common_of"
    /\ co_out.kind = "NotCalled"
    /\ co_out' = common_of(co_s1, co_s2, co_min, overflow_checks)
    /\ UNCHANGED <<overflow_checks, treeVars, co_s1, co_s2, co_min, snVars, fileVars>>

NextCommonOf == CallCommonOf

SpecCommonOf == InitCommonOf /\ [][NextCommonOf]_vars

-----------------------------------------------------------------------------
(* Subnet::new called on its own *)

OctetsPool == { <<1, 2, 3, 4>>, <<10, 2, 3, 4>>, <<0, 0, 0, 0>>, <<255, 255, 255, 255>> }

\* every u8 around the accepted range, and the largest
MaskLenPool == 0..35 \cup {255}

InitNew ==
    /\ overflow_checks \in BOOLEAN
    /\ EmptyTree
    /\ pc = "new"
    /\ IdleCommonOf
    /\ IdleFiles
    /\ sn_o \in OctetsPool
    /\ sn_len \in MaskLenPool
    /\ sn_out = NotCalled

\* Subnet::new(sn_o[1], sn_o[2], sn_o[3], sn_o[4], sn_len)
CallNew ==
    /\ pc = "new"
    /\ sn_out.kind = "NotCalled"
    /\ sn_out' = new(sn_o, sn_len, overflow_checks)
    /\ UNCHANGED <<overflow_checks, treeVars, coVars, sn_o, sn_len, fileVars>>

NextNew == CallNew

SpecNew == InitNew /\ [][NextNew]_vars

-----------------------------------------------------------------------------
(* find_subnets on files: every file is read and parsed as a whole, then its
   addresses are popped, last line first, and pushed *)

\* A line is what from_str looks at: whether it is empty once trimmed, how many '/' it
\* has, the '.'-separated pieces before the '/', and the piece after it. A piece is
\* a decimal numeral (num, with its value v) or some other text.
Tok(n) == [num |-> TRUE, v |-> n]
BadTok == [num |-> FALSE, v |-> 0]
BlankLine == [blank |-> TRUE, slashes |-> 0, octets |-> <<>>, mask |-> BadTok]
Quad(o) == [blank |-> FALSE, slashes |-> 0, octets |-> [i \in DOMAIN o |-> Tok(o[i])], mask |-> BadTok]
QuadMask(o, n) == [blank |-> FALSE, slashes |-> 1, octets |-> [i \in DOMAIN o |-> Tok(o[i])], mask |-> Tok(n)]

\* str::parse::<u8>
parse_u8(t) == t.num /\ t.v < U8_MODULUS

\* Subnet::from_str(src) -> Result<Subnet, Box<dyn Error>>, or a panic out of Subnet::new
from_str(src, checks) ==
    IF src.slashes > 0 /\ src.slashes + 1 # 2
    THEN [kind |-> "Err", v |-> root, msg |-> "there are more than 1 / in the address"]
    ELSE IF src.slashes > 0 /\ ~parse_u8(src.mask)
    THEN [kind |-> "Err", v |-> root, msg |-> "can't parse netmask"]
    ELSE LET mask_len == IF src.slashes > 0 THEN src.mask.v ELSE 32 IN
         IF \E i \in DOMAIN src.octets : ~parse_u8(src.octets[i])
         THEN [kind |-> "Err", v |-> root, msg |-> "unable to parse"]
         ELSE IF Len(src.octets) # 4
         THEN [kind |-> "Err", v |-> root, msg |-> "doesn't have 4 dot-separated octets"]
         ELSE LET r == new([i \in 1..4 |-> src.octets[i].v], mask_len, checks) IN
              [kind |-> r.kind, v |-> r.v, msg |-> IF r.kind = "Err" THEN "mask len is > 32" ELSE ""]

\* split("\n").map(trim).filter(non-empty).map(from_str).collect::<Result<Vec<_>, _>>()
\* from the i-th line on: the first Err ends it, as does a panic
RECURSIVE parse_lines(_, _, _, _)
parse_lines(lines, i, acc, checks) ==
    IF i > Len(lines)
    THEN [kind |-> "Ok", v |-> acc, msg |-> "", src |-> BlankLine]
    ELSE IF lines[i].blank
    THEN parse_lines(lines, i + 1, acc, checks)
    ELSE LET r == from_str(lines[i], checks) IN
         CASE r.kind = "Ok" -> parse_lines(lines, i + 1, Append(acc, r.v), checks)
           [] r.kind = "Err" -> [kind |-> "Err", v |-> acc, msg |-> r.msg, src |-> lines[i]]
           [] OTHER -> [kind |-> "Panic", v |-> acc, msg |-> "", src |-> lines[i]]

MaxFiles == 2

File(lines) == [readable |-> TRUE, lines |-> lines]
MissingFile == [readable |-> FALSE, lines |-> <<>>]

FilePool ==
    { File(<<>>),
      File(<<Quad(<<10, 1, 2, 3>>), BlankLine, Quad(<<10, 1, 2, 4>>)>>),
      File(<<QuadMask(<<10, 1, 2, 0>>, 29)>>),
      File(<<QuadMask(<<10, 1, 2, 0>>, 29), Quad(<<10, 1, 2, 4>>), Quad(<<10, 1, 2, 3>>)>>),
      File(<<QuadMask(<<10, 128, 0, 5>>, 24), Quad(<<192, 168, 0, 1>>)>>),
      File(<<QuadMask(<<1, 2, 3, 4>>, 0)>>),
      File(<<QuadMask(<<1, 2, 3, 4>>, 0), Quad(<<1, 2, 3, 257>>)>>),
      File(<<Quad(<<10, 1, 2, 3>>), Quad(<<256, 0, 1, 2>>), Quad(<<1, 2, 3, 7, 8>>)>>),
      File(<<Quad(<<1, 2, 3, 7, 8>>)>>),
      File(<<[blank |-> FALSE, slashes |-> 2, octets |-> <<Tok(1)>>, mask |-> BadTok]>>),
      File(<<Quad(<<10, 0, 2, 9>>), QuadMask(<<1, 2, 3, 7>>, 300)>>),
      File(<<QuadMask(<<1, 2, 3, 4>>, 35)>>),
      File(<<[blank |-> FALSE, slashes |-> 0, octets |-> <<BadTok, Tok(2), Tok(3), Tok(4)>>, mask |-> BadTok]>>),
      MissingFile }

RECURSIVE SeqsUpTo(_, _)
SeqsUpTo(S, n) ==
    IF n = 0 THEN {<<>>}
    ELSE LET shorter == SeqsUpTo(S, n - 1) IN
         shorter \cup {Append(q, x) : q \in {p \in shorter : Len(p) = n - 1}, x \in S}

InitFiles ==
    /\ overflow_checks \in BOOLEAN
    /\ EmptyTree
    /\ pc = "next_file"
    /\ IdleCommonOf
    /\ IdleNew
    /\ files \in SeqsUpTo(FilePool, MaxFiles)
    /\ file_no = 0
    /\ addrs = <<>>
    /\ error = None
    /\ pushed_from = <<>>

\* `for file_name in file_names`: read_to_string(..)? and the collect(..)? of the next file
LoadFile ==
    /\ pc = "next_file"
    /\ file_no < Len(files)
    /\ file_no' = file_no + 1
    /\ LET f == files[file_no + 1] IN
       IF ~f.readable
       THEN /\ pc' = "failed"
            /\ error' = Some([msg |-> "No such file or directory", src |-> BlankLine])
            /\ addrs' = <<>>
       ELSE LET parsed == parse_lines(f.lines, 1, <<>>, overflow_checks) IN
            CASE parsed.kind = "Ok" ->
                   /\ pc' = "popping"
                   /\ addrs' = parsed.v
                   /\ error' = None
              [] parsed.kind = "Err" ->
                   /\ pc' = "failed"
                   /\ error' = Some([msg |-> parsed.msg, src |-> parsed.src])
                   /\ addrs' = <<>>
              [] OTHER ->
                   /\ pc' = "panicked"
                   /\ error' = None
                   /\ addrs' = <<>>
    /\ UNCHANGED <<overflow_checks, tree, pushed, subnets_map, last_sd, coVars, snVars, files, pushed_from>>

\* `while let Some(addr) = addrs.pop()`: one address popped and pushed
PopPush ==
    /\ pc = "popping"
    /\ addrs # <<>>
    /\ LET addr == addrs[Len(addrs)]
           r == push(tree, addr, overflow_checks)
       IN  /\ addrs' = SubSeq(addrs, 1, Len(addrs) - 1)
           /\ tree' = r.tree
           /\ last_sd' = r.sd
           /\ pushed' = Append(pushed, addr)
           /\ pushed_from' = Append(pushed_from, file_no)
           /\ pc' = CASE r.res = "Ok" -> "popping"
                      [] r.res = "Err" -> "failed"
                      [] OTHER -> "panicked"
           /\ error' = IF r.res = "Err"
                       THEN Some([msg |-> "doesn't belong to IPv4 address space", src |-> BlankLine])
                       ELSE None
    /\ UNCHANGED <<overflow_checks, subnets_map, coVars, snVars, files, file_no>>

\* the while loop ends on an empty Vec
EndOfFile ==
    /\ pc = "popping"
    /\ addrs = <<>>
    /\ pc' = "next_file"
    /\ UNCHANGED <<overflow_checks, tree, pushed, subnets_map, last_sd, coVars, snVars, fileVars>>

\* after the last file: get_subnets_map, Ok(subnets)
Finish ==
    /\ pc = "next_file"
    /\ file_no = Len(files)
    /\ subnets_map' = Some(get_subnets_map(tree))
    /\ pc' = "done"
    /\ UNCHANGED <<overflow_checks, tree, pushed, last_sd, coVars, snVars, fileVars>>

NextFiles ==
    \/ LoadFile
    \/ PopPush
    \/ EndOfFile
    \/ Finish

SpecFiles == InitFiles /\ [][NextFiles]_vars

-----------------------------------------------------------------------------
(* Vocabulary of the properties *)

Range(f) == {f[i] : i \in DOMAIN f}

Distinct(seq) == \A i, j \in DOMAIN seq : i # j => seq[i] # seq[j]

\* how often x occurs in seq
Count(seq, x) == Cardinality({i \in DOMAIN seq : seq[i] = x})

\* every node of the tree under (and including) n
RECURSIVE Subtrees(_)
Subtrees(n) ==
    {n} \cup (IF n.children.some
              THEN UNION {Subtrees(n.children.v[i]) : i \in 1..Len(n.children.v)}
              ELSE {})

\* the nodes strictly below n
Descendants(n) ==
    IF n.children.some
    THEN UNION {Subtrees(n.children.v[i]) : i \in 1..Len(n.children.v)}
    ELSE {}

\* the childless nodes under (and including) n, left to right, one entry per node
RECURSIVE ChildlessNodes(_)
ChildlessNodes(n) ==
    IF n.children.some
    THEN ConcatAll([i \in 1..Len(n.children.v) |-> ChildlessNodes(n.children.v[i])])
    ELSE <<n>>

\* some node other than the root has children: a stepdown has happened
HasIntermediate == \E n \in Descendants(tree) : n.children.some

-----------------------------------------------------------------------------
(* C1 - after pushing pairwise distinct /32 addresses (at least one) into a new tree,
   the childless nodes are in one-to-one correspondence with the pushed addresses:
   each pushed address is the subnet of exactly one childless node, and every
   childless node's subnet is a pushed address *)
C1_LeavesAreTheAddresses ==
    (Distinct(pushed) /\ pushed # <<>>) =>
        LET leaves == ChildlessNodes(tree) IN
        /\ Len(leaves) = Len(pushed)
        /\ \A a \in Range(pushed) : Cardinality({i \in DOMAIN leaves : leaves[i].subnet = a}) = 1
        /\ \A i \in DOMAIN leaves : leaves[i].subnet \in Range(pushed)

C1_Witness ==
    /\ Distinct(pushed)
    /\ Len(pushed) = 4
    /\ HasIntermediate
    /\ Len(ChildlessNodes(tree)) = 4

-----------------------------------------------------------------------------
(* C2 - for distinct /32 addresses pushed into a new tree, the map get_subnets_map
   returns covers exactly the pushed addresses: each pushed address is listed, once,
   under exactly one key, that key's subnet contains it, and every listed member is
   a pushed address *)

\* the text of a pushed /32 address: the dotted quad it was read from, and /32
Text(a) ==
    LET o == CHOOSE q \in AddrPool : from_be_bytes(q) = a.bits
    IN  <<o[1], o[2], o[3], o[4], 32>>

\* the subnet a key "o1.o2.o3.o4/n" denotes
KeySubnet(k) ==
    LET m == [i \in BitIdx |-> IF i <= k[5] THEN 1 ELSE 0]
    IN  [bits |-> BitAnd(from_be_bytes(<<k[1], k[2], k[3], k[4]>>), m), mask_len |-> k[5], mask |-> m]

C2_MapCoversExactlyThePushed ==
    (pc = "done" /\ Distinct(pushed)) =>
        LET m == subnets_map.v IN
        /\ \A a \in Range(pushed) :
              LET ks == {k \in DOMAIN m : Text(a) \in Range(m[k])} IN
              /\ Cardinality(ks) = 1
              /\ \A k \in ks : Count(m[k], Text(a)) = 1 /\ contains(KeySubnet(k), a)
        /\ \A k \in DOMAIN m : \A i \in DOMAIN m[k] : \E a \in Range(pushed) : m[k][i] = Text(a)

\* four distinct addresses reported under two discovered subnets
C2_Witness ==
    /\ pc = "done"
    /\ Distinct(pushed)
    /\ Len(pushed) = 4
    /\ Cardinality(DOMAIN subnets_map.v) = 2

-----------------------------------------------------------------------------
(* C3 - in every state reached by pushing /32 addresses, each node's subnet contains
   the subnet of every one of its descendants *)
C3_NodeContainsDescendants ==
    \A n \in Subtrees(tree) : \A d \in Descendants(n) : contains(n.subnet, d.subnet)

\* a tree three levels deep below the root
C3_Witness ==
    \E n \in Descendants(tree) : \E d \in Descendants(n) : d.children.some

-----------------------------------------------------------------------------
(* C4 - in every state reached by pushing /32 addresses, no child of a node contains
   a sibling: the children of a node are pairwise disjoint *)
C4_ChildrenDisjoint ==
    \A n \in Subtrees(tree) :
        n.children.some =>
            \A i, j \in 1..Len(n.children.v) :
                i # j => ~contains(n.children.v[i].subnet, n.children.v[j].subnet)

\* a node with two children that themselves have children
C4_Witness ==
    \E n \in Subtrees(tree) :
        /\ n.children.some
        /\ Len(n.children.v) = 2
        /\ n.children.v[1].children.some
        /\ n.children.v[2].children.some

-----------------------------------------------------------------------------
(* C5 - every push of a /32 address into the root, duplicates included, returns Ok:
   none returns Err and none panics (no common_of call with min_mask above the
   shorter mask, no overflow of mask_len + 1, no overflowing shift) *)
C5_PushAlwaysOk == pc \notin {"failed", "panicked"}

\* four pushes, one of them a repeat, with a stepdown among them
C5_Witness ==
    /\ Len(pushed) = 4
    /\ ~Distinct(pushed)
    /\ HasIntermediate
    /\ pc = "pushing"

-----------------------------------------------------------------------------
(* The addresses of the scenarios *)

Addr(o) == [bits |-> from_be_bytes(o), mask_len |-> 32, mask |-> U32_MAX]

\* exactly the two addresses x and y were pushed, in either order, and the map was taken
PushedExactly(x, y) ==
    /\ pc = "done"
    /\ Len(pushed) = 2
    /\ Range(pushed) = {Addr(x), Addr(y)}

-----------------------------------------------------------------------------
(* C6, as claimed - pushing exactly 10.128.0.5 and 10.0.2.9 yields two discovered
   subnets, each holding one of the two addresses, and not the single 10.0.0.0/8 *)
C6_Original ==
    PushedExactly(<<10, 128, 0, 5>>, <<10, 0, 2, 9>>) =>
        LET m == subnets_map.v IN
        /\ Cardinality(DOMAIN m) = 2
        /\ <<10, 0, 0, 0, 8>> \notin DOMAIN m
        /\ \A k \in DOMAIN m : Len(m[k]) = 1
        /\ \A a \in Range(pushed) : \E k \in DOMAIN m : m[k] = <<Text(a)>>

(* C6, amended - pushing exactly 10.128.0.5 and 10.0.2.9 yields one discovered subnet,
   10.0.0.0/8, holding both addresses in the order they were pushed: the second push
   merges with the first at the root, the two sharing their first 8 bits *)
C6_MergedUnderSlash8 ==
    PushedExactly(<<10, 128, 0, 5>>, <<10, 0, 2, 9>>) =>
        LET m == subnets_map.v IN
        /\ DOMAIN m = {<<10, 0, 0, 0, 8>>}
        /\ m[<<10, 0, 0, 0, 8>>] = <<Text(pushed[1]), Text(pushed[2])>>

C6_Witness ==
    /\ pc = "done"
    /\ pushed = <<Addr(<<10, 128, 0, 5>>), Addr(<<10, 0, 2, 9>>)>>
    /\ subnets_map.some

-----------------------------------------------------------------------------
(* C7, as claimed - pushing a single address A yields exactly one discovered subnet,
   A itself with mask length 32, whose only member is A *)
C7_Original ==
    (pc = "done" /\ Len(pushed) = 1) =>
        LET m == subnets_map.v IN
        /\ DOMAIN m = {Text(pushed[1])}
        /\ m[Text(pushed[1])] = <<Text(pushed[1])>>

(* C7, amended - pushing a single address A yields exactly one discovered subnet, the
   root 0.0.0.0/0 (the node whose immediate child is the mask-32 leaf), whose only
   member is A, rendered with its mask length 32 *)
C7_SingleAddressUnderRoot ==
    (pc = "done" /\ Len(pushed) = 1) =>
        LET m == subnets_map.v IN
        /\ DOMAIN m = {<<0, 0, 0, 0, 0>>}
        /\ m[<<0, 0, 0, 0, 0>>] = <<Text(pushed[1])>>

C7_Witness ==
    /\ pc = "done"
    /\ Len(pushed) = 1
    /\ subnets_map.some
    /\ tree.children = Some(<<of(pushed[1])>>)

-----------------------------------------------------------------------------
(* C8 - pushing two distinct /32 addresses A then B that agree on their first bit
   yields exactly one discovered subnet, the longest common prefix of A and B
   (10.1.2.0/29 for 10.1.2.3 and 10.1.2.4), with member list exactly [A, B] *)

\* the number of leading bits on which x and y agree
AgreeLen(x, y) ==
    LET ks == {k \in 0..U32_BITS : \A i \in 1..k : x[i] = y[i]}
    IN  CHOOSE k \in ks : \A j \in ks : j <= k

\* the text of the prefix of length k of the address a
PrefixText(a, k) ==
    LET b == [i \in BitIdx |-> IF i <= k THEN a.bits[i] ELSE 0]
        octet(n) == b[8 * n - 7] * 128 + b[8 * n - 6] * 64 + b[8 * n - 5] * 32 + b[8 * n - 4] * 16
                    + b[8 * n - 3] * 8 + b[8 * n - 2] * 4 + b[8 * n - 1] * 2 + b[8 * n]
    IN  <<octet(1), octet(2), octet(3), octet(4), k>>

C8_TwoAddressesUnderCommonPrefix ==
    (/\ pc = "done"
     /\ Len(pushed) = 2
     /\ pushed[1] # pushed[2]
     /\ pushed[1].bits[1] = pushed[2].bits[1]) =>
        LET m == subnets_map.v
            key == PrefixText(pushed[1], AgreeLen(pushed[1].bits, pushed[2].bits))
        IN  /\ DOMAIN m = {key}
            /\ m[key] = <<Text(pushed[1]), Text(pushed[2])>>
            /\ (pushed = <<Addr(<<10, 1, 2, 3>>), Addr(<<10, 1, 2, 4>>)>>) => key = <<10, 1, 2, 0, 29>>

C8_Witness ==
    /\ pc = "done"
    /\ pushed = <<Addr(<<10, 1, 2, 3>>), Addr(<<10, 1, 2, 4>>)>>
    /\ DOMAIN subnets_map.v = {<<10, 1, 2, 0, 29>>}

-----------------------------------------------------------------------------
(* C9, as claimed - an address pushed twice ends up as two sibling leaves: two
   childless mask-32 children of one node with equal subnets, so that the leaf
   collection reports the address twice *)

\* how many entries of get_leafs carry the subnet a
LeafCount(a) ==
    LET leafs == get_leafs(tree) IN Cardinality({i \in DOMAIN leafs : leafs[i].subnet = a})

\* some node has two childless children that both carry a
SiblingLeaves(a) ==
    \E n \in Subtrees(tree) :
        /\ n.children.some
        /\ \E i, j \in 1..Len(n.children.v) :
              /\ i # j
              /\ n.children.v[i] = of(a)
              /\ n.children.v[j] = of(a)

C9_Original ==
    \A a \in Range(pushed) :
        (Count(pushed, a) = 2 /\ a.mask_len = 32) => (SiblingLeaves(a) /\ LeafCount(a) = 2)

(* C9, amended - an address pushed twice ends up as a parent and its only child: the
   leaf of the first push accepts the second push (it contains it and has no
   children), so the tree holds a mask-32 node of that address whose single child
   is a childless mask-32 node of the same address; no two siblings carry the
   address, and the leaf collection reports it once *)
C9_DuplicateNestsUnderItsLeaf ==
    \A a \in Range(pushed) :
        (Count(pushed, a) = 2 /\ a.mask_len = 32) =>
            /\ \E n \in Subtrees(tree) : n = [subnet |-> a, children |-> Some(<<of(a)>>)]
            /\ ~SiblingLeaves(a)
            /\ LeafCount(a) = 1

\* an address pushed twice and another pushed after it
C9_Witness ==
    /\ Len(pushed) = 3
    /\ pushed[1] = pushed[2]
    /\ pushed[3] # pushed[1]
    /\ pc = "pushing"

-----------------------------------------------------------------------------
(* C10 - common_of agrees with the reference on every pair of canonical subnets and
   every min_mask (None meaning 0): it panics if min_mask exceeds the shorter mask
   length; otherwise it returns the canonical prefix of the greatest length k,
   min_mask <= k <= the shorter mask length, on whose top k bits the two agree, and
   None exactly when there is no such k; with min_mask 0 it never returns None and
   the length counter never underflows *)

RefCommonOf(s1, s2, min_mask_opt) ==
    LET min_mask == IF min_mask_opt.some THEN min_mask_opt.v ELSE 0
        shorter == Min(s1.mask_len, s2.mask_len)
        ks == {k \in min_mask..shorter : \A i \in 1..k : s1.bits[i] = s2.bits[i]}
    IN  IF min_mask > shorter
        THEN [kind |-> "Panic", v |-> root]
        ELSE IF ks = {}
             THEN [kind |-> "None", v |-> root]
             ELSE LET k == CHOOSE x \in ks : \A y \in ks : y <= x
                      m == [i \in BitIdx |-> IF i <= k THEN 1 ELSE 0]
                  IN  [kind |-> "Some", v |-> [bits |-> BitAnd(s1.bits, m), mask_len |-> k, mask |-> m]]

C10_Original ==
    co_out.kind # "NotCalled" =>
        /\ co_out = RefCommonOf(co_s1, co_s2, co_min)
        /\ (~co_min.some \/ co_min.v = 0) => co_out.kind = "Some"

-----------------------------------------------------------------------------
(* C11 - for every valid prefix P, the universal prefix 0.0.0.0/0 included,
   common_of(P, P, 0) returns Some(P), with the same bits, mask_len and mask *)
C11_Original ==
    (/\ co_out.kind # "NotCalled"
     /\ co_s1 = co_s2
     /\ (~co_min.some \/ co_min.v = 0)) =>
        co_out = [kind |-> "Some", v |-> co_s1]

-----------------------------------------------------------------------------
(* C12 - Subnet::new(o1, o2, o3, o4, mask_len) returns, for every mask_len from 0
   through 32, the canonical prefix: mask with exactly the top mask_len bits set,
   bits the octets with everything below the mask cleared; mask_len 0 yields the
   universal prefix, equal to Subnet::root(); mask_len above 32 returns Err *)
C12_Original ==
    sn_out.kind # "NotCalled" =>
        IF sn_len > 32
        THEN sn_out.kind = "Err"
        ELSE /\ sn_out.kind = "Ok"
             /\ sn_out.v.mask_len = sn_len
             /\ sn_out.v.mask = [i \in BitIdx |-> IF i <= sn_len THEN 1 ELSE 0]
             /\ sn_out.v.bits = [i \in BitIdx |-> IF i <= sn_len THEN from_be_bytes(sn_o)[i] ELSE 0]
             /\ BitAnd(sn_out.v.bits, sn_out.v.mask) = sn_out.v.bits
             /\ sn_len = 0 => sn_out.v = root

-----------------------------------------------------------------------------
\* find_subnets: the lines of a file that from_str rejects
FailingLines(f, checks) ==
    {i \in DOMAIN f.lines : ~f.lines[i].blank /\ from_str(f.lines[i], checks).kind = "Err"}

MinOf(S) == CHOOSE x \in S : \A y \in S : x <= y

PushesFrom(k) == Count(pushed_from, k)

NonBlank(f) == {i \in DOMAIN f.lines : ~f.lines[i].blank}

\* C13: of every file find_subnets has taken up: a file that cannot be read makes
\* find_subnets return Err; a file with a non-empty line that from_str rejects makes
\* it return Err with the error of (the first such) line, and no address of the file
\* is pushed; a file some address of which is pushed had every line parsed to Ok
\* before, the parsed addresses being either pushed or still waiting.
C13_Original ==
    \A k \in 1..file_no :
        LET f == files[k] IN
        /\ ~f.readable =>
              /\ k = file_no
              /\ pc = "failed"
              /\ error.some
              /\ PushesFrom(k) = 0
        /\ (f.readable /\ FailingLines(f, overflow_checks) # {}) =>
              LET i == MinOf(FailingLines(f, overflow_checks)) IN
              /\ k = file_no
              /\ pc = "failed"
              /\ error = Some([msg |-> from_str(f.lines[i], overflow_checks).msg, src |-> f.lines[i]])
              /\ PushesFrom(k) = 0
        /\ PushesFrom(k) > 0 =>
              /\ \A i \in NonBlank(f) : from_str(f.lines[i], overflow_checks).kind = "Ok"
              /\ PushesFrom(k) + (IF k = file_no THEN Len(addrs) ELSE 0) = Cardinality(NonBlank(f))

\* an entry from_str accepts by the documented grammar: a dotted quad alone or with /n, n in 0..32
Accepted(line) ==
    \/ line.blank
    \/ /\ Len(line.octets) = 4
       /\ \A i \in DOMAIN line.octets : parse_u8(line.octets[i])
       /\ \/ line.slashes = 0
          \/ line.slashes = 1 /\ line.mask.num /\ line.mask.v <= U32_BITS

\* C14: when every file taken up is readable and holds accepted entries only,
\* find_subnets neither returns Err nor panics, in parsing or in any push.
C14_Original ==
    (\A k \in 1..file_no :
        /\ files[k].readable
        /\ \A i \in DOMAIN files[k].lines : Accepted(files[k].lines[i]))
    => pc \notin {"failed", "panicked"}

-----------------------------------------------------------------------------
(* The two-scan placement, written from its description and not from the loop *)

\* the prefix of s is a prefix of the address bits of other
PrefixCovers(s, other) == \A i \in 1..s.mask_len : s.bits[i] = other.bits[i]

Leaf(L) == [subnet |-> L, children |-> None]

RECURSIVE TwoScanPush(_, _)
TwoScanPush(node, L) ==
    IF ~node.children.some
    THEN [subnet |-> node.subnet, children |-> Some(<<Leaf(L)>>)]
    ELSE LET ch == node.children.v
             joint(i) == RefCommonOf(ch[i].subnet, L, Some(node.subnet.mask_len + 1))
             accepting == {i \in DOMAIN ch : PrefixCovers(ch[i].subnet, L)}
             merging == {i \in DOMAIN ch : joint(i).kind = "Some"}
         IN  IF accepting # {}
             THEN LET i == MinOf(accepting) IN
                  [subnet |-> node.subnet,
                   children |-> Some([ch EXCEPT ![i] = TwoScanPush(ch[i], L)])]
             ELSE IF merging # {}
             THEN LET i == MinOf(merging) IN
                  [subnet |-> node.subnet,
                   children |-> Some([ch EXCEPT ![i] =
                       [subnet |-> joint(i).v, children |-> Some(<<ch[i], Leaf(L)>>)]])]
             ELSE [subnet |-> node.subnet, children |-> Some(Append(ch, Leaf(L)))]

RECURSIVE TwoScanAll(_)
TwoScanAll(seq) ==
    IF seq = <<>>
    THEN [subnet |-> root, children |-> None]
    ELSE TwoScanPush(TwoScanAll(SubSeq(seq, 1, Len(seq) - 1)), seq[Len(seq)])

(* C15 - for every sequence of /32 pushes the tree the interleaved loop of push builds
   is the tree of the two-scan placement: the leaf goes into the first child whose
   subnet contains it; only when no child contains it, the first child with a common
   supernet of length at least mask_len + 1 is stepped down; only when there is none
   either, the leaf is appended as the last child *)
C15_SameTreeAsTwoScan == tree = TwoScanAll(pushed)

\* the loop went past a first child that neither took the address nor merged with it,
\* on two levels, before a later child took it
C15_Witness ==
    /\ pushed = <<Addr(<<10, 1, 2, 3>>), Addr(<<192, 168, 0, 1>>),
                  Addr(<<128, 0, 0, 1>>), Addr(<<128, 0, 0, 1>>)>>
    /\ Len(tree.children.v) = 2
    /\ Len(tree.children.v[2].children.v) = 2
    /\ tree.children.v[2].children.v[2].children.some

-----------------------------------------------------------------------------
\* the node reached from t by the child indices of path
RECURSIVE NodeAt(_, _)
NodeAt(t, path) ==
    IF path = <<>> THEN t ELSE NodeAt(t.children.v[Head(path)], Tail(path))

\* t with child `slot` of the node at path replaced by n, nothing else touched
RECURSIVE ReplaceAt(_, _, _, _)
ReplaceAt(t, path, slot, n) ==
    IF path = <<>>
    THEN [subnet |-> t.subnet, children |-> Some([t.children.v EXCEPT ![slot] = n])]
    ELSE [subnet |-> t.subnet,
          children |-> Some([t.children.v EXCEPT
                               ![Head(path)] = ReplaceAt(t.children.v[Head(path)], Tail(path), slot, n)])]

(* C16 - a push that steps a child C down for the leaf L with supernet S changes only
   C's slot: the slot keeps its position and then holds a node with subnet S and
   exactly two children, the former C with everything beneath it and a new childless
   leaf for L, in this order; the parent's other children and the rest of the tree
   are as before; parent.mask_len < S.mask_len < C.mask_len *)
C16_StepdownFrame ==
    [][(pushed' # pushed /\ last_sd'.some) =>
          LET sd == last_sd'.v
              parent == NodeAt(tree, sd.path)
              C == parent.children.v[sd.slot]
              after == NodeAt(tree', sd.path)
              N == after.children.v[sd.slot]
          IN  /\ sd.leaf = pushed'[Len(pushed')]
              /\ N.subnet = sd.supernet
              /\ N.children.some
              /\ Len(N.children.v) = 2
              /\ N.children.v[1] = C
              /\ N.children.v[2] = [subnet |-> sd.leaf, children |-> None]
              /\ after.subnet = parent.subnet
              /\ Len(after.children.v) = Len(parent.children.v)
              /\ \A j \in DOMAIN parent.children.v :
                    j # sd.slot => after.children.v[j] = parent.children.v[j]
              /\ tree' = ReplaceAt(tree, sd.path, sd.slot, N)
              /\ parent.subnet.mask_len < sd.supernet.mask_len
              /\ sd.supernet.mask_len < C.subnet.mask_len]_vars

\* the last push stepped down, below the root and not in the first slot, a child
\* that had children of its own
C16_Witness ==
    /\ last_sd.some
    /\ last_sd.v.path # <<>>
    /\ last_sd.v.slot > 1
    /\ NodeAt(tree, last_sd.v.path).children.v[last_sd.v.slot].children.v[1].children.some

-----------------------------------------------------------------------------
\* the subnets of all nodes under (and including) n, one entry per node
RECURSIVE NodeSubnets(_)
NodeSubnets(n) ==
    <<n.subnet>> \o (IF n.children.some
                     THEN ConcatAll([i \in 1..Len(n.children.v) |-> NodeSubnets(n.children.v[i])])
                     ELSE <<>>)

\* the subnets a node of the tree may be handed
Supplied == SubnetPool \cup {Addr(o) : o \in AddrPool}

\* a push on a node below the root that does not contain the subnet, and any push on
\* such a node that returns Err, hands the subnet back and leaves the node as it was
\* (the root contains every subnet)
C17_RejectLeavesNode ==
    \A n \in Descendants(tree) : \A L \in Supplied :
        LET r == push(n, L, overflow_checks) IN
        /\ ~PrefixCovers(n.subnet, L) => r.res = "Err"
        /\ r.res = "Err" => (r.v = L /\ r.tree = n)

\* a push into the root returns Ok and adds one node carrying the pushed subnet, a
\* childless one, and one more node, carrying the supernet, exactly when it stepped down
C17_PushAddsOneLeaf ==
    pushed' # pushed =>
        LET L == pushed'[Len(pushed')]
            before == NodeSubnets(tree)
            after == NodeSubnets(tree')
            extra(s) == (IF s = L THEN 1 ELSE 0)
                        + (IF last_sd'.some /\ s = last_sd'.v.supernet THEN 1 ELSE 0)
        IN  /\ pc' = "pushing"
            /\ Len(after) = Len(before) + (IF last_sd'.some THEN 2 ELSE 1)
            /\ \A s \in Range(before) \cup Range(after) : Count(after, s) = Count(before, s) + extra(s)
            /\ \E n \in Subtrees(tree') : n = [subnet |-> L, children |-> None]

(* C17 - a push on a node that does not contain the supplied subnet returns Err with
   that subnet and leaves the node and everything beneath it unchanged, so a child
   that rejects the address during the scan is not modified; and every push into the
   root succeeds and adds exactly one new leaf, plus one intermediate node exactly
   when it stepped a child down *)
C17_RejectionAndGrowth == []C17_RejectLeavesNode /\ [][C17_PushAddsOneLeaf]_vars

\* a node below the root with children of its own rejects an address, and the last
\* push added a leaf and an intermediate node
C17_Witness ==
    /\ last_sd.some
    /\ \E n \in Descendants(tree) : \E o \in AddrPool :
          /\ n.children.some
          /\ push(n, Addr(o), overflow_checks).res = "Err"

-----------------------------------------------------------------------------
\* the positions of the nodes of t, as child-index paths, in depth-first order,
\* children in order, a node before what is beneath it
RECURSIVE PathsPre(_)
PathsPre(t) ==
    <<<<>>>> \o (IF t.children.some
                 THEN ConcatAll([i \in 1..Len(t.children.v) |->
                         LET sub == PathsPre(t.children.v[i]) IN
                         [j \in 1..Len(sub) |-> <<i>> \o sub[j]]])
                 ELSE <<>>)

HasLeafChild(n) ==
    /\ n.children.some
    /\ \E i \in 1..Len(n.children.v) : n.children.v[i].subnet.mask_len = 32

\* the node at p has a mask-32 child and no node above it has one
ChoppedAt(t, p) ==
    /\ HasLeafChild(NodeAt(t, p))
    /\ \A k \in 0..(Len(p) - 1) : ~HasLeafChild(NodeAt(t, SubSeq(p, 1, k)))

\* q lies strictly beneath p
Beneath(q, p) == Len(q) > Len(p) /\ SubSeq(q, 1, Len(p)) = p

(* C18 - the discovered subnets are exactly the nodes with at least one immediate
   mask-32 child and no proper ancestor with such a child, in depth-first order; the
   members of a discovered subnet are all childless nodes beneath it, at any depth,
   depth-first with children in order; the map holds one key per discovered subnet
   with these members *)
C18_ChopAtFirstLeaf ==
    LET all == PathsPre(tree)
        chopped(p) == ChoppedAt(tree, p)
        disc == SelectSeq(all, chopped)
        members(p) == LET leaf(q) == Beneath(q, p) /\ ~NodeAt(tree, q).children.some
                          qs == SelectSeq(all, leaf)
                      IN  [j \in 1..Len(qs) |-> NodeAt(tree, qs[j])]
    IN  /\ get_subnets(tree) = [i \in 1..Len(disc) |-> NodeAt(tree, disc[i])]
        /\ \A i \in 1..Len(disc) : get_leafs(NodeAt(tree, disc[i])) = members(disc[i])
        /\ \A i, j \in 1..Len(disc) : i # j => ~Beneath(disc[i], disc[j])
        /\ pc = "done" =>
              /\ DOMAIN subnets_map.v = {to_string(NodeAt(tree, disc[i]).subnet) : i \in 1..Len(disc)}
              /\ \A i \in 1..Len(disc) :
                    LET ms == members(disc[i]) IN
                    subnets_map.v[to_string(NodeAt(tree, disc[i]).subnet)]
                        = [j \in 1..Len(ms) |-> to_string(ms[j].subnet)]

\* the root is reported for its mask-32 child and hides a child that has mask-32
\* children of its own; the members come from two depths
C18_Witness ==
    /\ pc = "done"
    /\ HasLeafChild(tree)
    /\ \E i \in 1..Len(tree.children.v) : HasLeafChild(tree.children.v[i])
    /\ Len(get_leafs(tree)) >= 3

-----------------------------------------------------------------------------
\* the elements of S in one fixed order
RECURSIVE SeqOf(_)
SeqOf(S) ==
    IF S = {} THEN <<>>
    ELSE LET x == CHOOSE y \in S : TRUE IN <<x>> \o SeqOf(S \ {x})

\* the tree after pushing seq, in this order, into a new tree
RECURSIVE PushAll(_, _)
PushAll(seq, checks) ==
    IF seq = <<>> THEN AddressTree_new
    ELSE push(PushAll(SubSeq(seq, 1, Len(seq) - 1), checks), seq[Len(seq)], checks).tree

\* two maps with the same keys and, under each key, the same set of members
SameUpToMemberOrder(m1, m2) ==
    /\ DOMAIN m1 = DOMAIN m2
    /\ \A k \in DOMAIN m1 : Range(m1[k]) = Range(m2[k]) /\ Len(m1[k]) = Len(m2[k])

(* C19 - for distinct /32 addresses the map does not depend on the order of the
   pushes, up to the order inside the member lists: the map of every order of a set
   has the keys and the member sets of the map of the set pushed in one fixed order,
   hence of every other order *)
C19_OrderIndependent ==
    (pc = "done" /\ Distinct(pushed)) =>
        SameUpToMemberOrder(subnets_map.v,
                            get_subnets_map(PushAll(SeqOf(Range(pushed)), overflow_checks)))

\* four distinct addresses pushed in an order that gives another member order than
\* the fixed one
C19_Witness ==
    /\ pc = "done"
    /\ Distinct(pushed)
    /\ Len(pushed) = 4
    /\ subnets_map.v # get_subnets_map(PushAll(SeqOf(Range(pushed)), overflow_checks))

-----------------------------------------------------------------------------
(* C20 - after pushes of distinct /32 addresses, every node below the root that has
   children has exactly two, which differ in the bit right after the node's mask, and
   the node's subnet is the longest common prefix of the leaf addresses beneath it;
   the root has at most two children, which differ in their first bit *)
C20_BinaryTrie ==
    Distinct(pushed) =>
        /\ \A n \in Descendants(tree) :
              n.children.some =>
                  LET k == n.subnet.mask_len + 1
                      ch == n.children.v
                      leaves == ChildlessNodes(n)
                  IN  /\ Len(ch) = 2
                      /\ k <= U32_BITS
                      /\ ch[1].subnet.mask_len >= k
                      /\ ch[2].subnet.mask_len >= k
                      /\ ch[1].subnet.bits[k] # ch[2].subnet.bits[k]
                      /\ \A i \in DOMAIN leaves : \A j \in 1..(k - 1) :
                            leaves[i].subnet.bits[j] = leaves[1].subnet.bits[j]
                      /\ \E i \in DOMAIN leaves : leaves[i].subnet.bits[k] # leaves[1].subnet.bits[k]
                      /\ n.subnet.bits = [i \in BitIdx |-> IF i < k THEN leaves[1].subnet.bits[i] ELSE 0]
                      /\ n.subnet.mask = [i \in BitIdx |-> IF i < k THEN 1 ELSE 0]
        /\ tree.children.some =>
              /\ Len(tree.children.v) <= 2
              /\ Len(tree.children.v) = 2 =>
                    tree.children.v[1].subnet.bits[1] # tree.children.v[2].subnet.bits[1]

\* the root has two children, and a node below it has a child with children
C20_Witness ==
    /\ Distinct(pushed)
    /\ tree.children.some
    /\ Len(tree.children.v) = 2
    /\ \E n \in Descendants(tree) :
          /\ n.children.some
          /\ \E i \in 1..Len(n.children.v) : n.children.v[i].children.some

====
